---- MODULE Spec2Model ----
(***************************************************************************)
(* Model of the glue layer of ai-image-edit:                               *)
(*   reddit_service.py  - post resolver (live source -> cache -> mock)     *)
(*   cleanup_service.py - disk accountant, age-based reaper, quota policy  *)
(*   ai_service.py      - edit orchestrator                                *)
(*   main.py            - the /api/upload and /api/edit handlers and the   *)
(*                        scheduler that runs the cleanup job              *)
(* Each subsystem has its own specification over the shared variables:     *)
(*   Spec        resolve calls run one after another                       *)
(*   SpecConc    resolve calls interleaved at the file-system-call level   *)
(*   SpecCleanup cleanup runs over the two tracked directories             *)
(*   SpecEdit    edit_image_with_gemini calls and /api/edit requests       *)
(*   SpecCodec   the edited image as a data URI, encoded and decoded       *)
(*   SpecServing the cleanup job interleaved with uploads and edits        *)
(***************************************************************************)
EXTENDS Integers, Sequences, FiniteSets, TLC

VARIABLES
    cacheFile,   \* temp/reddit_posts.json: [exists, data], data a sequence of JSON tokens
    lastCall,    \* observation of the last get_photoshop_request_posts call
    procs,       \* SpecConc: the in-flight resolve calls
    reads,       \* SpecConc: what each completed load_posts_from_cache observed
    lastWriter,  \* SpecConc: the posts of the writer that closed the file last
    dirs,        \* the two tracked directories: name -> set of entries
    sweep,       \* observation of the last run_cleanup_if_needed / clear_old_files
    edit,        \* the edit request in progress, or the last one's result
    clock,       \* time.time(), in seconds
    made         \* how many uploads, edit requests and cleanup jobs have started

vars == <<cacheFile, lastCall, procs, reads, lastWriter, dirs, sweep, edit, clock, made>>

(***************************************************************************)
(* Bounds of the model.                                                    *)
(***************************************************************************)
\* longest listing the live source yields in one query
MaxLive == 2

(***************************************************************************)
(* reddit_service.py: data                                                 *)
(***************************************************************************)
\* one_day_ago = time.time() - (24 * 60 * 60)
DaySeconds == 24 * 60 * 60

\* time.time() at the moment of the call (any instant later than one day)
Clock == 3 * DaySeconds

\* submission.url.endswith(('.jpg', '.jpeg', '.png')); a URL is a sequence of
\* string pieces, its last piece being its ending
ImageExts == {".jpg", ".jpeg", ".png"}

endswith_image(url) == Len(url) > 0 /\ url[Len(url)] \in ImageExts

\* str.replace('&amp;', '&')
replace_amp(url) == [i \in 1..Len(url) |-> IF url[i] = "&amp;" THEN "&" ELSE url[i]]

\* A submission as the live source yields it.  preview.has is hasattr(submission,
\* 'preview'); preview.ok is FALSE when preview['images'][0]['source']['url']
\* raises KeyError or IndexError.
NoPreview == [has |-> FALSE, ok |-> FALSE, url |-> <<>>]

Submissions ==
    { [id |-> "direct",  created_utc |-> Clock - 10,
       url |-> <<"i.redd.it/a", ".jpg">>, preview |-> NoPreview],
      [id |-> "preview", created_utc |-> Clock - 20,
       url |-> <<"reddit.com/gallery/b">>,
       preview |-> [has |-> TRUE, ok |-> TRUE, url |-> <<"preview.redd.it/b", "&amp;", "s=1">>]],
      [id |-> "edge",    created_utc |-> Clock - DaySeconds,
       url |-> <<"i.redd.it/c", ".png">>, preview |-> NoPreview],
      [id |-> "old",     created_utc |-> Clock - DaySeconds - 1,
       url |-> <<"i.redd.it/d", ".jpeg">>, preview |-> NoPreview],
      [id |-> "noimage", created_utc |-> Clock - 30,
       url |-> <<"reddit.com/r/e", ".JPG">>,
       preview |-> [has |-> TRUE, ok |-> FALSE, url |-> <<>>]] }

\* image_url of lines 136-143; <<>> stands for None and for the empty string,
\* both falsy at line 145
image_url_of(s) ==
    IF endswith_image(s.url) THEN s.url
    ELSE IF s.preview.has /\ s.preview.ok THEN replace_amp(s.preview.url)
    ELSE <<>>

\* post_data of lines 146-158
post_data(s) ==
    [id |-> s.id, imageUrl |-> image_url_of(s), created_utc |-> s.created_utc]

\* the loop of lines 131-159 over the candidates the source yielded
RECURSIVE image_posts_of(_)
image_posts_of(cands) ==
    IF cands = <<>> THEN <<>>
    ELSE LET s == Head(cands)
             rest == image_posts_of(Tail(cands))
         IN IF s.created_utc < Clock - DaySeconds THEN rest
            ELSE IF image_url_of(s) # <<>> THEN <<post_data(s)>> \o rest
            ELSE rest

\* subreddit.new(limit=limit): at most limit candidates, newest first
new_listing(listing, limit) ==
    SubSeq(listing, 1, IF Len(listing) < limit THEN Len(listing) ELSE limit)

\* get_mock_posts()
get_mock_posts ==
    << [id |-> "mock_post_1", imageUrl |-> <<"placehold.co/1">>, created_utc |-> Clock],
       [id |-> "mock_post_2", imageUrl |-> <<"placehold.co/2">>, created_utc |-> Clock],
       [id |-> "mock_post_3", imageUrl |-> <<"placehold.co/3">>, created_utc |-> Clock] >>

(***************************************************************************)
(* The cache file as JSON text: a sequence of tokens.                      *)
(***************************************************************************)
NoPost == [id |-> "", imageUrl |-> <<>>, created_utc |-> 0]

Tok(k, v) == [k |-> k, v |-> v]

LBr == Tok("[", NoPost)

RBr == Tok("]", NoPost)

Comma == Tok(",", NoPost)

\* bytes that are no UTF-8: f.read() raises UnicodeDecodeError on them
BadBytes == Tok("not utf-8", NoPost)

\* json.dump(posts, f): "[" obj ("," obj)* "]"
RECURSIVE dump_items(_)
dump_items(posts) ==
    IF posts = <<>> THEN <<>>
    ELSE IF Len(posts) = 1 THEN <<Tok("obj", posts[1])>>
    ELSE <<Tok("obj", posts[1]), Comma>> \o dump_items(Tail(posts))

json_dump(posts) == <<LBr>> \o dump_items(posts) \o <<RBr>>

\* json.load(f): the list the text denotes, or a JSONDecodeError
RECURSIVE load_items(_)
load_items(toks) ==
    \* toks follows an object: "]" ends the list, "," obj continues it
    IF toks = <<RBr>> THEN [ok |-> TRUE, posts |-> <<>>]
    ELSE IF Len(toks) >= 2 /\ toks[1] = Comma /\ toks[2].k = "obj"
         THEN LET r == load_items(SubSeq(toks, 3, Len(toks)))
              IN [ok |-> r.ok, posts |-> <<toks[2].v>> \o r.posts]
    ELSE [ok |-> FALSE, posts |-> <<>>]

json_load(toks) ==
    IF toks = <<LBr, RBr>> THEN [ok |-> TRUE, posts |-> <<>>]
    ELSE IF Len(toks) >= 2 /\ toks[1] = LBr /\ toks[2].k = "obj"
         THEN LET r == load_items(SubSeq(toks, 3, Len(toks)))
              IN IF r.ok THEN [ok |-> TRUE, posts |-> <<toks[2].v>> \o r.posts]
                 ELSE [ok |-> FALSE, posts |-> <<>>]
    ELSE [ok |-> FALSE, posts |-> <<>>]

Absent == [exists |-> FALSE, data |-> <<>>]

FileOf(toks) == [exists |-> TRUE, data |-> toks]

\* load_posts_from_cache(): readable = FALSE makes open() raise IOError, which
\* line 60 catches like the JSONDecodeError of malformed text; the
\* UnicodeDecodeError of undecodable bytes is neither, and leaves the function
load_posts_from_cache(file, readable) ==
    IF ~file.exists THEN [raised |-> FALSE, posts |-> <<>>]
    ELSE IF ~readable THEN [raised |-> FALSE, posts |-> <<>>]
    ELSE IF \E i \in 1..Len(file.data) : file.data[i] = BadBytes
    THEN [raised |-> TRUE, posts |-> <<>>]
    ELSE IF json_load(file.data).ok THEN [raised |-> FALSE, posts |-> json_load(file.data).posts]
    ELSE [raised |-> FALSE, posts |-> <<>>]

\* save_posts_to_cache opening the file with 'a' instead of 'w': the new text
\* follows the old one
save_posts_appending(file, posts, how, cut) ==
    IF how = "ok" THEN [raised |-> FALSE, file |-> FileOf(file.data \o json_dump(posts))]
    ELSE [raised |-> TRUE, file |-> file]

\* save_posts_to_cache(posts): "ok" writes the whole text; "open" raises in
\* os.makedirs or open() and leaves the file alone; "write" raises during
\* json.dump or the flush at close, after open(..., 'w') truncated the file
\* and cut tokens reached it
save_posts_to_cache(file, posts, how, cut) ==
    IF how = "ok" THEN [raised |-> FALSE, file |-> FileOf(json_dump(posts))]
    ELSE IF how = "open" THEN [raised |-> TRUE, file |-> file]
    ELSE [raised |-> TRUE,
          file |-> FileOf(SubSeq(json_dump(posts), 1,
                     IF cut < Len(json_dump(posts)) THEN cut ELSE Len(json_dump(posts)) - 1))]

(***************************************************************************)
(* reddit_service.py: get_photoshop_request_posts                          *)
(***************************************************************************)
\* What the surroundings of one call do: the state of the live source, the
\* listing it would yield, how writing and reading the cache file go.
LiveStates == {"no_creds", "ctor_raises", "query_raises", "iter_raises", "ok"}

RECURSIVE SeqsUpTo(_, _)
SeqsUpTo(S, n) ==
    IF n = 0 THEN {<<>>}
    ELSE SeqsUpTo(S, n - 1) \cup
         {<<x>> \o q : x \in S, q \in {r \in SeqsUpTo(S, n - 1) : Len(r) = n - 1}}

Listings == SeqsUpTo(Submissions, MaxLive)

\* A source that fails before it yields anything has no listing; writing the
\* cache is reached only when the query succeeded.
Envs ==
    { e \in [live : LiveStates, listing : Listings, save : {"ok", "open", "write"},
             cut : 0..1, readable : BOOLEAN] :
        /\ e.live \in {"no_creds", "ctor_raises", "query_raises"} => e.listing = <<>>
        /\ e.live # "ok" => e.save = "ok"
        /\ e.save # "write" => e.cut = 0 }

\* get_reddit_instance(): None without the four credentials; praw.Reddit(...)
\* otherwise, whose constructor raises when it finds no user agent
\* (REDDIT_USER_AGENT is not among the credentials line 32 checks)
get_reddit_instance(live) ==
    IF live = "no_creds" THEN "None"
    ELSE IF live = "ctor_raises" THEN "raise"
    ELSE "client"

\* cached_posts if cached_posts else get_mock_posts()
cache_or_mock(file, readable) ==
    LET cached == load_posts_from_cache(file, readable)
    IN [raised |-> cached.raised,
        ret |-> IF cached.raised THEN <<>>
                ELSE IF cached.posts # <<>> THEN cached.posts
                ELSE get_mock_posts]

Outcome(raised, ret, file, queried, wrote) ==
    [raised |-> raised, ret |-> ret, file |-> file, queried |-> queried, wrote |-> wrote]

\* the fallback of lines 167-168 and 172-173 (a load that raises inside the
\* try block raises again in the except clause)
Fallback(file, readable, queried, wrote) ==
    Outcome(cache_or_mock(file, readable).raised, cache_or_mock(file, readable).ret,
            file, queried, wrote)

\* lines 124-173: the try block and its except clause
fetch_fresh(file, limit, env, inst) ==
    IF inst = "None"
    THEN \* reddit.subreddit raises AttributeError on None: except clause
         Fallback(file, env.readable, FALSE, FALSE)
    ELSE IF env.live \in {"query_raises", "iter_raises"}
    THEN Fallback(file, env.readable, TRUE, FALSE)
    ELSE LET image_posts == image_posts_of(new_listing(env.listing, limit))
             s == save_posts_to_cache(file, image_posts, env.save, env.cut)
         IN IF image_posts # <<>>
            THEN IF s.raised
                 THEN Fallback(s.file, env.readable, TRUE, env.save = "write")
                 ELSE Outcome(FALSE, image_posts, s.file, TRUE, TRUE)
            ELSE Fallback(file, env.readable, TRUE, FALSE)

\* lines 111-173; raised = TRUE: an exception leaves the call
get_photoshop_request_posts(file, limit, cache, env) ==
    LET inst == get_reddit_instance(env.live)
    IN IF inst = "raise" THEN Outcome(TRUE, <<>>, file, FALSE, FALSE)
       ELSE IF cache THEN Fallback(file, env.readable, FALSE, FALSE)
       ELSE fetch_fresh(file, limit, env, inst)

\* a snapshot an earlier successful fetch left in the cache file
EarlierSnapshot ==
    << [id |-> "earlier_1", imageUrl |-> <<"i.redd.it/x", ".jpg">>, created_utc |-> DaySeconds],
       [id |-> "earlier_2", imageUrl |-> <<"i.redd.it/y", ".png">>, created_utc |-> DaySeconds + 1] >>

InitFiles ==
    { Absent, FileOf(<<>>), FileOf(<<LBr, RBr>>), FileOf(<<LBr>>), FileOf(<<LBr, BadBytes>>),
      FileOf(json_dump(EarlierSnapshot)), FileOf(json_dump(<<EarlierSnapshot[2]>>)) }

NoEnv ==
    [live |-> "ok", listing |-> <<>>, save |-> "ok", cut |-> 0, readable |-> TRUE]

Idle ==
    [op |-> "idle", cache |-> TRUE, limit |-> 0, env |-> NoEnv, pre |-> Absent,
     raised |-> FALSE, ret |-> <<>>, queried |-> FALSE, wrote |-> FALSE]

NoSweep == [op |-> "idle"]

NoEdit == [op |-> "idle"]

NoneMade == [uploads |-> 0, edits |-> 0, sweeps |-> 0]

\* one call of get_photoshop_request_posts(limit, cache), start to return
ResolveCall ==
    /\ lastCall.op = "idle"
    /\ \E limit \in 1..MaxLive, cache \in BOOLEAN, env \in Envs :
         LET r == get_photoshop_request_posts(cacheFile, limit, cache, env)
         IN /\ cacheFile' = r.file
            /\ lastCall' = [op |-> "done", cache |-> cache, limit |-> limit, env |-> env,
                            pre |-> cacheFile, raised |-> r.raised, ret |-> r.ret,
                            queried |-> r.queried, wrote |-> r.wrote]
    /\ UNCHANGED <<procs, reads, lastWriter, dirs, sweep, edit, clock, made>>

\* the caller has the result (or the exception); the next request may come
ResolveReturn ==
    /\ lastCall.op = "done"
    /\ lastCall' = Idle
    /\ UNCHANGED <<cacheFile, procs, reads, lastWriter, dirs, sweep, edit, clock, made>>

Init ==
    /\ cacheFile \in InitFiles
    /\ lastCall = Idle
    /\ procs = <<>>
    /\ reads = {}
    /\ lastWriter = <<>>
    /\ dirs = <<>>
    /\ sweep = NoSweep
    /\ edit = NoEdit
    /\ clock = Clock
    /\ made = NoneMade

Next == ResolveCall \/ ResolveReturn

Spec == Init /\ [][Next]_vars

(***************************************************************************)
(* Resolve calls running at the same time (SpecConc): several workers      *)
(* share temp/reddit_posts.json.  A call is cut at its file-system calls:  *)
(* open(CACHE_FILE, 'w') truncates, the buffered text reaches the file in  *)
(* pieces at the handle's own offset, close() ends the write; a load reads *)
(* the whole file in one step.                                             *)
(***************************************************************************)
\* number of resolve calls in flight
NProcs == 2

ProcIds == 1..NProcs

ConcListings ==
    { <<CHOOSE s \in Submissions : s.id = "direct">>,
      <<CHOOSE s \in Submissions : s.id = "preview", CHOOSE s \in Submissions : s.id = "edge">>,
      <<CHOOSE s \in Submissions : s.id = "old">> }

NotStarted == [pc |-> "start", cache |-> TRUE, posts |-> <<>>, buf |-> <<>>, off |-> 0, ret |-> <<>>]

\* a byte the file system fills a hole with
Nul == Tok("nul", NoPost)

\* write(2) of chunk at offset off of a file holding data
WriteAt(data, off, chunk) ==
    LET n == IF Len(data) > off + Len(chunk) THEN Len(data) ELSE off + Len(chunk)
    IN [i \in 1..n |->
          IF i > off /\ i <= off + Len(chunk) THEN chunk[i - off]
          ELSE IF i <= Len(data) THEN data[i]
          ELSE Nul]

\* lines 117-131 and 161-173: up to the first access to the cache file
ConcCall(p) ==
    /\ procs[p].pc = "start"
    /\ \E cache \in BOOLEAN, live \in {"ok", "query_raises", "no_creds"}, listing \in ConcListings :
         LET image_posts == image_posts_of(new_listing(listing, MaxLive))
             saves == ~cache /\ get_reddit_instance(live) = "client" /\ live = "ok"
                      /\ image_posts # <<>>
         IN procs' = [procs EXCEPT ![p] =
                [@ EXCEPT !.cache = cache,
                          !.posts = IF saves THEN image_posts ELSE <<>>,
                          !.pc = IF saves THEN "open" ELSE "load"]]
    /\ UNCHANGED <<cacheFile, lastCall, reads, lastWriter, dirs, sweep, edit, clock, made>>

\* save_posts_to_cache, line 48: open(CACHE_FILE, 'w') creates or truncates
ConcOpen(p) ==
    /\ procs[p].pc = "open"
    /\ cacheFile' = FileOf(<<>>)
    /\ procs' = [procs EXCEPT ![p] =
                    [@ EXCEPT !.pc = "write", !.buf = json_dump(procs[p].posts), !.off = 0]]
    /\ UNCHANGED <<lastCall, reads, lastWriter, dirs, sweep, edit, clock, made>>

\* save_posts_to_cache, line 49: a piece of the buffered text reaches the file
ConcFlush(p) ==
    /\ procs[p].pc = "write"
    /\ procs[p].buf # <<>>
    /\ \E k \in 1..Len(procs[p].buf) :
         /\ cacheFile' = FileOf(WriteAt(cacheFile.data, procs[p].off, SubSeq(procs[p].buf, 1, k)))
         /\ procs' = [procs EXCEPT ![p] =
                         [@ EXCEPT !.buf = SubSeq(procs[p].buf, k + 1, Len(procs[p].buf)),
                                   !.off = procs[p].off + k]]
    /\ UNCHANGED <<lastCall, reads, lastWriter, dirs, sweep, edit, clock, made>>

\* save_posts_to_cache, end of the with block, and line 163: return image_posts
ConcClose(p) ==
    /\ procs[p].pc = "write"
    /\ procs[p].buf = <<>>
    /\ procs' = [procs EXCEPT ![p] = [@ EXCEPT !.pc = "done", !.ret = procs[p].posts]]
    /\ lastWriter' = procs[p].posts
    /\ UNCHANGED <<cacheFile, lastCall, reads, dirs, sweep, edit, clock, made>>

\* load_posts_from_cache and the return of lines 122, 168, 173
ConcLoad(p) ==
    /\ procs[p].pc = "load"
    /\ reads' = reads \cup {[proc |-> p, file |-> cacheFile]}
    /\ procs' = [procs EXCEPT ![p] =
                    [@ EXCEPT !.pc = "done", !.ret = cache_or_mock(cacheFile, TRUE).ret]]
    /\ UNCHANGED <<cacheFile, lastCall, lastWriter, dirs, sweep, edit, clock, made>>

InitConc ==
    /\ cacheFile = FileOf(json_dump(EarlierSnapshot))
    /\ lastCall = Idle
    /\ procs = [p \in ProcIds |-> NotStarted]
    /\ reads = {}
    /\ lastWriter = <<>>
    /\ dirs = <<>>
    /\ sweep = NoSweep
    /\ edit = NoEdit
    /\ clock = Clock
    /\ made = NoneMade

NextConc ==
    \E p \in ProcIds : ConcCall(p) \/ ConcOpen(p) \/ ConcFlush(p) \/ ConcClose(p) \/ ConcLoad(p)

SpecConc == InitConc /\ [][NextConc]_vars

(***************************************************************************)
(* Claim about concurrent resolve calls (SpecConc).                        *)
(***************************************************************************)
\* the texts a reader may see if the snapshot is replaced wholesale: the
\* previous snapshot, or the complete list of one of the fetches
CompleteTexts ==
    {json_dump(EarlierSnapshot)} \cup
    {json_dump(procs[p].posts) : p \in {q \in ProcIds : procs[q].posts # <<>>}}

\* C6: under any interleaving of resolve calls every read of the cache sees
\* the complete list of one successful fetch or the complete previous
\* snapshot (never an empty, truncated or mixed file), and once all calls
\* have finished the cache holds the full result of the last writer.
C6_SnapshotReplacedWholesale ==
    /\ \A r \in reads : r.file.exists /\ r.file.data \in CompleteTexts
    /\ (\A p \in ProcIds : procs[p].pc = "done") /\ lastWriter # <<>> =>
           cacheFile.data = json_dump(lastWriter)

(***************************************************************************)
(* cleanup_service.py: accountant, reaper and quota policy (SpecCleanup).  *)
(* A directory is [exists, entries]; an entry is a direct child:           *)
(*   isfile     os.path.isfile: a regular file, otherwise a subdirectory   *)
(*   mtime      os.path.getmtime                                           *)
(*   size       bytes os.walk counts for it: the file's own size, or the   *)
(*              sizes of the regular files nested under the subdirectory   *)
(*   removable  FALSE makes os.remove raise OSError (PermissionError)      *)
(***************************************************************************)
\* int(os.getenv("MAX_STORAGE_MB", 500))
DefaultMaxStorageMB == 500

\* cleanup_age_hours = 24
CleanupAgeHours == 24

BytesPerMB == 1024 * 1024

HourSeconds == 60 * 60

uploads_path == "static/uploads"

edited_path == "static/edited_images"

TrackedDirs == {uploads_path, edited_path}

Entry(name, isfile, mtime, size, removable) ==
    [name |-> name, isfile |-> isfile, mtime |-> mtime, size |-> size, removable |-> removable]

UploadEntries ==
    { Entry("u_old",    TRUE,  Clock - CleanupAgeHours * HourSeconds - 1, 300 * BytesPerMB, TRUE),
      Entry("u_edge",   TRUE,  Clock - CleanupAgeHours * HourSeconds,     200 * BytesPerMB, TRUE),
      Entry("u_hour",   TRUE,  Clock - HourSeconds - 1,                   1,                TRUE),
      Entry("u_locked", TRUE,  Clock - 2 * CleanupAgeHours * HourSeconds, 1,                FALSE),
      Entry("u_sub",    FALSE, Clock - 2 * CleanupAgeHours * HourSeconds, 100 * BytesPerMB, TRUE) }

EditedEntries ==
    { Entry("e_old",    TRUE,  Clock - 3 * CleanupAgeHours * HourSeconds + 7, 200 * BytesPerMB, TRUE),
      Entry("e_hour",   TRUE,  Clock - HourSeconds,                       1,                TRUE),
      Entry("e_new",    TRUE,  Clock - 5,                                 100 * BytesPerMB, TRUE),
      Entry("e_locked", TRUE,  Clock - CleanupAgeHours * HourSeconds - 2, 300 * BytesPerMB, FALSE),
      Entry("e_sub",    FALSE, Clock - 3 * CleanupAgeHours * HourSeconds, 600 * BytesPerMB, TRUE) }

NoDir == [exists |-> FALSE, entries |-> {}]

DirOf(entries) == [exists |-> TRUE, entries |-> entries]

\* os.makedirs(path, exist_ok=True)
makedirs(dir) == IF dir.exists THEN dir ELSE DirOf({})

\* get_directory_size(path), in bytes: the value the code returns is this
\* number divided by 1024 * 1024 (exact in floating point below 2^53 bytes)
RECURSIVE total_size_of(_)
total_size_of(entries) ==
    IF entries = {} THEN 0
    ELSE LET e == CHOOSE x \in entries : TRUE
         IN e.size + total_size_of(entries \ {e})

get_directory_size(dir) == total_size_of(dir.entries)

\* line 37 with <= for <
is_old_le(mtime, cutoff) == mtime <= cutoff

\* os.path.getmtime(file_path) < cutoff
is_old(mtime, cutoff) == mtime < cutoff

\* lines 41-42 re-raising instead of logging
except_reraise(acc) == [acc EXCEPT !.raised = TRUE]

\* except OSError as e: print(...)
except_oserror(acc) == acc

\* lines 35-42 without the os.path.isfile test, removing a directory as
\* shutil.rmtree would
remove_step_any(e, cutoff, acc) ==
    IF acc.raised THEN acc
    ELSE IF is_old(e.mtime, cutoff)
    THEN IF e.removable
         THEN [entries |-> acc.entries \ {e}, count |-> acc.count + 1, raised |-> FALSE]
         ELSE except_oserror(acc)
    ELSE acc

\* the body of the for loop, lines 35-42; acc = [entries, count, raised]
remove_step(e, cutoff, acc) ==
    IF acc.raised THEN acc
    ELSE IF e.isfile /\ is_old(e.mtime, cutoff)
    THEN IF e.removable
         THEN [entries |-> acc.entries \ {e}, count |-> acc.count + 1, raised |-> FALSE]
         ELSE except_oserror(acc)
    ELSE acc

\* for filename in os.listdir(folder_path)
RECURSIVE reap(_, _, _)
reap(todo, cutoff, acc) ==
    IF todo = {} THEN acc
    ELSE LET e == CHOOSE x \in todo : TRUE
         IN reap(todo \ {e}, cutoff, remove_step(e, cutoff, acc))

\* clear_old_files(folder_path, max_age_hours) called at time now
clear_old_files(dir, max_age_hours, now) ==
    IF ~dir.exists THEN [dir |-> dir, count |-> 0, raised |-> FALSE]
    ELSE LET r == reap(dir.entries, now - max_age_hours * HourSeconds,
                       [entries |-> dir.entries, count |-> 0, raised |-> FALSE])
         IN [dir |-> DirOf(r.entries), count |-> r.count, raised |-> r.raised]

\* line 71 with >= for >
exceeds_ge(total_bytes, max_storage_mb) == total_bytes >= max_storage_mb * BytesPerMB

\* total_size > max_storage_mb
exceeds(total_bytes, max_storage_mb) == total_bytes > max_storage_mb * BytesPerMB

\* MAX_STORAGE_MB in the environment: unset, or a number
StorageEnvs == {[set |-> FALSE, value |-> 0], [set |-> TRUE, value |-> 300]}

max_storage_mb_of(env) == IF env.set THEN env.value ELSE DefaultMaxStorageMB

\* run_cleanup_if_needed(); calls lists the reaper's invocations in order
run_cleanup_if_needed(ds, env, now) ==
    LET up == makedirs(ds[uploads_path])
        ed == makedirs(ds[edited_path])
        total == get_directory_size(up) + get_directory_size(ed)
        u == clear_old_files(up, CleanupAgeHours, now)
        e == clear_old_files(ed, CleanupAgeHours, now)
    IN IF exceeds(total, max_storage_mb_of(env))
       THEN IF u.raised
            THEN [dirs |-> [d \in TrackedDirs |-> IF d = uploads_path THEN u.dir ELSE ed],
                  calls |-> <<[path |-> uploads_path, hours |-> CleanupAgeHours, ret |-> u.count]>>,
                  raised |-> TRUE]
            ELSE [dirs |-> [d \in TrackedDirs |-> IF d = uploads_path THEN u.dir ELSE e.dir],
                  calls |-> <<[path |-> uploads_path, hours |-> CleanupAgeHours, ret |-> u.count],
                              [path |-> edited_path, hours |-> CleanupAgeHours, ret |-> e.count]>>,
                  raised |-> e.raised]
       ELSE [dirs |-> [d \in TrackedDirs |-> IF d = uploads_path THEN up ELSE ed],
             calls |-> <<>>, raised |-> FALSE]

InitDirs ==
    [TrackedDirs -> {NoDir}] \cup
    { [d \in TrackedDirs |-> IF d = uploads_path THEN DirOf(u) ELSE DirOf(e)] :
        u \in SUBSET UploadEntries, e \in SUBSET EditedEntries }

\* the scheduler's job: one run of run_cleanup_if_needed
CleanupRun ==
    /\ sweep.op = "idle"
    /\ \E env \in StorageEnvs :
         LET r == run_cleanup_if_needed(dirs, env, Clock)
         IN /\ dirs' = r.dirs
            /\ sweep' = [op |-> "policy", pre |-> dirs, env |-> env, now |-> Clock,
                         path |-> "", hours |-> CleanupAgeHours,
                         calls |-> r.calls, ret |-> 0, raised |-> r.raised]
    /\ UNCHANGED <<cacheFile, lastCall, procs, reads, lastWriter, edit, clock, made>>

\* one call of clear_old_files(folder_path, max_age_hours)
ClearOldFilesCall ==
    /\ sweep.op = "idle"
    /\ \E d \in TrackedDirs, hours \in {1, CleanupAgeHours} :
         LET r == clear_old_files(dirs[d], hours, Clock)
         IN /\ dirs' = [dirs EXCEPT ![d] = r.dir]
            /\ sweep' = [op |-> "reaper", pre |-> dirs, env |-> [set |-> FALSE, value |-> 0],
                         now |-> Clock, path |-> d, hours |-> hours,
                         calls |-> <<>>, ret |-> r.count, raised |-> r.raised]
    /\ UNCHANGED <<cacheFile, lastCall, procs, reads, lastWriter, edit, clock, made>>

\* the run is over; the next one may start
SweepReturn ==
    /\ sweep.op # "idle"
    /\ sweep' = NoSweep
    /\ UNCHANGED <<cacheFile, lastCall, procs, reads, lastWriter, dirs, edit, clock, made>>

InitCleanup ==
    /\ cacheFile = Absent
    /\ lastCall = Idle
    /\ procs = <<>>
    /\ reads = {}
    /\ lastWriter = <<>>
    /\ dirs \in InitDirs
    /\ sweep = NoSweep
    /\ edit = NoEdit
    /\ clock = Clock
    /\ made = NoneMade

NextCleanup == CleanupRun \/ ClearOldFilesCall \/ SweepReturn

SpecCleanup == InitCleanup /\ [][NextCleanup]_vars

(***************************************************************************)
(* ai_service.py: edit_image_with_gemini (SpecEdit).                       *)
(* Bytes are sequences of numbers 0..255; a string is a sequence of        *)
(* pieces, so that startswith and "contains" look at its pieces.           *)
(***************************************************************************)
\* the '=' that base64 pads with, after the 64 digits 0..63
B64Pad == 64

\* base64.b64encode(image_data)
RECURSIVE b64encode(_)
b64encode(b) ==
    IF Len(b) = 0 THEN <<>>
    ELSE IF Len(b) = 1
    THEN <<b[1] \div 4, (b[1] % 4) * 16, B64Pad, B64Pad>>
    ELSE IF Len(b) = 2
    THEN <<b[1] \div 4, (b[1] % 4) * 16 + b[2] \div 16, (b[2] % 16) * 4, B64Pad>>
    ELSE <<b[1] \div 4, (b[1] % 4) * 16 + b[2] \div 16,
           (b[2] % 16) * 4 + b[3] \div 64, b[3] % 64>>
         \o b64encode(SubSeq(b, 4, Len(b)))

\* Image.open(BytesIO(image_bytes)) recognises the bytes by their first ones
\* (137 'P' 'N' 'G', or 255 216 for JPEG); anything else raises
\* UnidentifiedImageError
is_image(bytes) == Len(bytes) > 0 /\ bytes[1] \in {137, 255}

PngBytes == <<137, 80, 78, 71>>

HtmlBytes == <<60, 104>>

\* image_source.startswith(('http://', 'https://'))
is_url(image_source) == image_source[1] \in {"http://", "https://"}

ImageSources ==
    { <<"http://", "example.com/a.png">>, <<"https://", "i.redd.it/b.jpg">>,
      <<"/app/static/uploads/", "c.png">>, <<"ftp://", "example.com/d.png">> }

Exc(type, msg) == [type |-> type, msg |-> msg]

\* subclasses of requests.exceptions.RequestException
RequestExceptions == {"HTTPError", "ConnectionError", "Timeout"}

\* what requests.get(image_source, headers=headers, timeout=20) does
FetchOutcomes ==
    { [kind |-> "response", status |-> 200, content |-> PngBytes],
      [kind |-> "response", status |-> 200, content |-> HtmlBytes],
      [kind |-> "response", status |-> 200, content |-> <<>>],
      [kind |-> "response", status |-> 404, content |-> HtmlBytes],
      [kind |-> "response", status |-> 500, content |-> <<>>],
      [kind |-> "ConnectionError", status |-> 0, content |-> <<>>],
      [kind |-> "Timeout", status |-> 0, content |-> <<>>] }

\* what open(image_source, "rb") and f.read() do
ReadOutcomes ==
    { [kind |-> "bytes", status |-> 0, content |-> PngBytes],
      [kind |-> "bytes", status |-> 0, content |-> HtmlBytes],
      [kind |-> "bytes", status |-> 0, content |-> <<>>],
      [kind |-> "FileNotFoundError", status |-> 0, content |-> <<>>],
      [kind |-> "PermissionError", status |-> 0, content |-> <<>>],
      [kind |-> "IsADirectoryError", status |-> 0, content |-> <<>>] }

\* a part of the model's response; inline_data is falsy when nothing is set in it
TextPart(t) == [text |-> t, inline_data |-> [mime_type |-> "", data |-> <<>>]]

ImagePart(mime, data) == [text |-> "", inline_data |-> [mime_type |-> mime, data |-> data]]

inline_set(part) == part.inline_data.mime_type # "" \/ part.inline_data.data # <<>>

\* what vision_model.generate_content([final_prompt, image]) does: it raises,
\* or answers with parts; response.text raises ValueError when text_ok is
\* FALSE, and always when the response has no part
ModelOutcomes ==
    {[raises |-> TRUE, parts |-> <<>>, text_ok |-> FALSE]} \cup
    [raises : {FALSE},
     parts : { <<>>,
               <<ImagePart("image/png", <<137, 80, 78>>)>>,
               <<ImagePart("image/jpeg", <<255, 216>>)>>,
               <<TextPart("I cannot edit this image.")>>,
               <<TextPart("")>>,
               <<TextPart("Here is your image."), ImagePart("image/png", <<137>>)>> },
     text_ok : BOOLEAN]

EditEnvs ==
    { e \in [configured : BOOLEAN, source : ImageSources,
             got : FetchOutcomes \cup ReadOutcomes, model : ModelOutcomes] :
        IF is_url(e.source) THEN e.got \in FetchOutcomes ELSE e.got \in ReadOutcomes }

Returned(result) == [raised |-> FALSE, result |-> result]

Failure(error) == [ok |-> FALSE, edited_image_data |-> <<>>, error |-> error]

\* lines 202-208 without the last clause, except Exception
except_only_known(exc, image_source) ==
    IF exc.type \in RequestExceptions
    THEN Returned(Failure(<<"Failed to download", " image from URL: ", exc.msg>>))
    ELSE IF exc.type = "FileNotFoundError"
    THEN Returned(Failure(<<"Image file ", "not found", " at path: ">> \o image_source))
    ELSE [raised |-> TRUE, result |-> Failure(<<>>)]

\* the except clauses of lines 202-208
except_clauses(exc, image_source) ==
    IF exc.type \in RequestExceptions
    THEN Returned(Failure(<<"Failed to download", " image from URL: ", exc.msg>>))
    ELSE IF exc.type = "FileNotFoundError"
    THEN Returned(Failure(<<"Image file ", "not found", " at path: ">> \o image_source))
    ELSE Returned(Failure(<<exc.msg>>))

\* lines 148-162: the image bytes, or the exception raised on the way
load_image_bytes(e) ==
    IF is_url(e.source)
    THEN IF e.got.kind # "response" THEN [exc |-> Exc(e.got.kind, "no answer"), bytes |-> <<>>]
         ELSE IF e.got.status >= 400
         THEN [exc |-> Exc("HTTPError", "Client or Server Error for url"), bytes |-> <<>>]
         ELSE [exc |-> Exc("", ""), bytes |-> e.got.content]
    ELSE IF e.got.kind # "bytes" THEN [exc |-> Exc(e.got.kind, "errno"), bytes |-> <<>>]
         ELSE [exc |-> Exc("", ""), bytes |-> e.got.content]

\* lines 183-200 with the reason never appended
read_response_no_reason(resp) ==
    IF resp.parts # <<>> /\ inline_set(resp.parts[1])
    THEN [ok |-> TRUE,
          edited_image_data |->
              <<"data:", resp.parts[1].inline_data.mime_type, ";base64,">>
              \o b64encode(resp.parts[1].inline_data.data),
          error |-> <<>>]
    ELSE Failure(<<"AI did not return an image.">>)

\* lines 183-200: what the response holds
read_response(resp) ==
    IF resp.parts # <<>> /\ inline_set(resp.parts[1])
    THEN [ok |-> TRUE,
          edited_image_data |->
              <<"data:", resp.parts[1].inline_data.mime_type, ";base64,">>
              \o b64encode(resp.parts[1].inline_data.data),
          error |-> <<>>]
    ELSE IF resp.text_ok /\ resp.parts # <<>>
    THEN Failure(<<"AI did not return an image.", "\nReason from AI: ">>
                 \o [i \in 1..Len(resp.parts) |-> resp.parts[i].text])
    ELSE Failure(<<"AI did not return an image.">>)

\* edit_image_with_gemini(image_source, prompt)
edit_image_with_gemini(e) ==
    IF ~e.configured THEN Returned(Failure(<<"AI model not configured.">>))
    ELSE LET img == load_image_bytes(e)
         IN IF img.exc.type # "" THEN except_clauses(img.exc, e.source)
            ELSE IF img.bytes = <<>>
            THEN except_clauses(Exc("ValueError", "Could not load image data from source."),
                                e.source)
            ELSE IF ~is_image(img.bytes)
            THEN except_clauses(Exc("UnidentifiedImageError", "cannot identify image file"),
                                e.source)
            ELSE IF e.model.raises
            THEN except_clauses(Exc("GoogleAPIError", "model call failed"), e.source)
            ELSE Returned(read_response(e.model))

\* longest inline image, in bytes
MaxData == 3

ByteValues == {0, 1, 85, 137, 170, 255}

MimeTypes == {"image/png", "image/jpeg"}

InlineData == UNION {[1..n -> ByteValues] : n \in 0..MaxData}

\* the string has a ',' in this piece, at its end
ends_with_comma(piece) == piece = ";base64,"

\* str.find(","): the scan goes left to right and stops at the first piece
\* with a ','; 0 when the string has none
RECURSIVE find_comma(_, _)
find_comma(url, i) ==
    IF i > Len(url) THEN 0
    ELSE IF ends_with_comma(url[i]) THEN i
    ELSE find_comma(url, i + 1)

\* image_data_url.split(",", 1): the pieces before the first ',' and the rest
split_comma(url) ==
    LET i == find_comma(url, 1)
    IN IF i = 0 THEN [found |-> FALSE, header |-> url, encoded |-> <<>>]
       ELSE [found |-> TRUE, header |-> SubSeq(url, 1, i),
             encoded |-> SubSeq(url, i + 1, Len(url))]

\* base64.b64decode(encoded) that keeps the low bits of the padded group's
\* last digit
RECURSIVE b64decode_keep_bits(_)
b64decode_keep_bits(d) ==
    IF Len(d) = 0 THEN [ok |-> TRUE, bytes |-> <<>>]
    ELSE IF Len(d) < 4 \/ d[1] = B64Pad \/ d[2] = B64Pad
    THEN [ok |-> FALSE, bytes |-> <<>>]
    ELSE IF d[3] = B64Pad
    THEN [ok |-> d[4] = B64Pad, bytes |-> <<d[1] * 4 + d[2] \div 16, (d[2] % 16) * 16>>]
    ELSE IF d[4] = B64Pad
    THEN [ok |-> TRUE,
          bytes |-> <<d[1] * 4 + d[2] \div 16, (d[2] % 16) * 16 + d[3] \div 4,
                      (d[3] % 4) * 64>>]
    ELSE LET rest == b64decode_keep_bits(SubSeq(d, 5, Len(d)))
         IN [ok |-> rest.ok,
             bytes |-> <<d[1] * 4 + d[2] \div 16, (d[2] % 16) * 16 + d[3] \div 4,
                         (d[3] % 4) * 64 + d[4]>> \o rest.bytes]

\* base64.b64decode(encoded): four digits give three bytes, a group padded
\* with one '=' two bytes, with two '=' one byte; anything else raises
\* binascii.Error (ok is FALSE)
RECURSIVE b64decode(_)
b64decode(d) ==
    IF Len(d) = 0 THEN [ok |-> TRUE, bytes |-> <<>>]
    ELSE IF Len(d) < 4 \/ d[1] = B64Pad \/ d[2] = B64Pad
    THEN [ok |-> FALSE, bytes |-> <<>>]
    ELSE IF d[3] = B64Pad
    THEN [ok |-> d[4] = B64Pad, bytes |-> <<d[1] * 4 + d[2] \div 16>>]
    ELSE IF d[4] = B64Pad
    THEN [ok |-> TRUE,
          bytes |-> <<d[1] * 4 + d[2] \div 16, (d[2] % 16) * 16 + d[3] \div 4>>]
    ELSE LET rest == b64decode(SubSeq(d, 5, Len(d)))
         IN [ok |-> rest.ok,
             bytes |-> <<d[1] * 4 + d[2] \div 16, (d[2] % 16) * 16 + d[3] \div 4,
                         (d[3] % 4) * 64 + d[4]>> \o rest.bytes]

\* main.py lines 246-247: header, encoded = split(",", 1); b64decode(encoded)
decode_in_handler(image_data_url) ==
    LET cut == split_comma(image_data_url)
        dec == b64decode(cut.encoded)
    IN IF ~cut.found \/ ~dec.ok THEN [raised |-> TRUE, image_bytes |-> <<>>]
       ELSE [raised |-> FALSE, image_bytes |-> dec.bytes]

\* save_image_from_data_url up to Image.open: the check for "base64,", the
\* split and the decoding; opened tells whether Image.open accepted the bytes
save_image_from_data_url(image_data_url) ==
    IF image_data_url = <<>> \/ find_comma(image_data_url, 1) = 0
    THEN [raised |-> TRUE, image_bytes |-> <<>>, opened |-> FALSE]
    ELSE LET cut == split_comma(image_data_url)
             dec == b64decode(cut.encoded)
         IN IF ~dec.ok THEN [raised |-> TRUE, image_bytes |-> <<>>, opened |-> FALSE]
            ELSE [raised |-> ~is_image(dec.bytes), image_bytes |-> dec.bytes,
                  opened |-> is_image(dec.bytes)]

\* a field of the request body: data.get(key) is None when the key is absent
Field(present, value) == [present |-> present, value |-> value]

\* not image_url, not prompt: None and the empty string are falsy
falsy(field) == ~field.present \/ field.value = <<>>

RequestUrls ==
    { Field(FALSE, <<>>), Field(TRUE, <<>>),
      Field(TRUE, <<"https://", "i.redd.it/b.jpg">>),
      Field(TRUE, <<"/", "static/uploads/", "c.png">>) }

RequestPrompts == {Field(FALSE, <<>>), Field(TRUE, <<>>), Field(TRUE, <<"make the sky blue">>)}

\* lines 234-239: a path from the client is joined to the directory of main.py
image_source_of(image_url) ==
    IF image_url[1] = "/"
    THEN <<"/app/" \o image_url[2]>> \o SubSeq(image_url, 3, Len(image_url))
    ELSE image_url

HttpException(status_code, detail) ==
    [status |-> status_code, detail |-> detail, content |-> Failure(<<>>),
     called |-> FALSE, stored |-> <<>>, wrote |-> FALSE]

UnexpectedError == HttpException(500, "An unexpected error occurred during image editing.")

\* lines 264-266: except Exception catches whatever the try block raised,
\* the HTTPException of line 232 included, and raises status 500
except_exception(raised_in_try) == UnexpectedError

\* main.py edit_image, lines 225-266; e is what edit_image_with_gemini meets
edit_image(image_url, prompt, e) ==
    IF falsy(image_url) \/ falsy(prompt)
    THEN except_exception(HttpException(400, "imageUrl and prompt are required"))
    ELSE LET r == edit_image_with_gemini(e)
         IN IF r.raised
            THEN [except_exception(HttpException(0, "")) EXCEPT !.called = TRUE]
            ELSE IF r.result.ok /\ r.result.edited_image_data # <<>>
            THEN LET dec == decode_in_handler(r.result.edited_image_data)
                 IN IF dec.raised
                    THEN [except_exception(HttpException(0, "")) EXCEPT !.called = TRUE]
                    ELSE [status |-> 200, detail |-> "", content |-> r.result,
                          called |-> TRUE, stored |-> dec.image_bytes, wrote |-> TRUE]
            ELSE [status |-> 200, detail |-> "", content |-> r.result,
                  called |-> TRUE, stored |-> <<>>, wrote |-> FALSE]

\* one call of edit_image_with_gemini, start to return
EditCall ==
    /\ edit.op = "idle"
    /\ \E e \in EditEnvs :
         edit' = [op |-> "done", env |-> e,
                  raised |-> edit_image_with_gemini(e).raised,
                  result |-> edit_image_with_gemini(e).result]
    /\ UNCHANGED <<cacheFile, lastCall, procs, reads, lastWriter, dirs, sweep, clock, made>>

\* one request to /api/edit, start to answer
HandleEdit ==
    /\ edit.op = "idle"
    /\ \E image_url \in RequestUrls, prompt \in RequestPrompts, e \in EditEnvs :
         /\ ~(falsy(image_url) \/ falsy(prompt)) => e.source = image_source_of(image_url.value)
         /\ falsy(image_url) \/ falsy(prompt) =>
                e = [configured |-> TRUE, source |-> <<"http://", "example.com/a.png">>,
                     got |-> [kind |-> "response", status |-> 200, content |-> PngBytes],
                     model |-> [raises |-> FALSE, parts |-> <<>>, text_ok |-> FALSE]]
         /\ edit' = [op |-> "answered", image_url |-> image_url, prompt |-> prompt, env |-> e,
                     answer |-> edit_image(image_url, prompt, e)]
    /\ UNCHANGED <<cacheFile, lastCall, procs, reads, lastWriter, dirs, sweep, clock, made>>

\* the caller has the result; the next request may come
EditReturn ==
    /\ edit.op \in {"done", "answered"}
    /\ edit' = NoEdit
    /\ UNCHANGED <<cacheFile, lastCall, procs, reads, lastWriter, dirs, sweep, clock, made>>

InitEdit ==
    /\ cacheFile = Absent
    /\ lastCall = Idle
    /\ procs = <<>>
    /\ reads = {}
    /\ lastWriter = <<>>
    /\ dirs = <<>>
    /\ sweep = NoSweep
    /\ edit = NoEdit
    /\ clock = Clock
    /\ made = NoneMade

NextEdit == EditCall \/ HandleEdit \/ EditReturn

SpecEdit == InitEdit /\ [][NextEdit]_vars

(***************************************************************************)
(* The data URI of the edited image, there and back (SpecCodec): the bytes *)
(* of the model's inline image become a data URI in edit_image_with_gemini *)
(* and bytes again in the /api/edit handler and in                         *)
(* save_image_from_data_url.  A data URI is the three pieces of its header *)
(* followed by its base64 digits, 0..63 and B64Pad for '='.                *)
(***************************************************************************)
\* the model answers with one inline image; lines 183-192 build the data URI
CodecEncode ==
    /\ edit.op = "idle"
    /\ \E mime \in MimeTypes, data \in InlineData :
         LET resp == [raises |-> FALSE, parts |-> <<ImagePart(mime, data)>>,
                      text_ok |-> FALSE]
         IN edit' = [op |-> "encoded", data |-> data, mime |-> mime,
                     url |-> read_response(resp).edited_image_data]
    /\ UNCHANGED <<cacheFile, lastCall, procs, reads, lastWriter, dirs, sweep, clock, made>>

\* the /api/edit handler decodes the data URI it was handed
CodecHandlerDecode ==
    /\ edit.op = "encoded"
    /\ edit' = [op |-> "in_handler", data |-> edit.data, mime |-> edit.mime,
                url |-> edit.url, back |-> decode_in_handler(edit.url)]
    /\ UNCHANGED <<cacheFile, lastCall, procs, reads, lastWriter, dirs, sweep, clock, made>>

\* save_image_from_data_url decodes the data URI it was handed
CodecSaveDecode ==
    /\ edit.op = "encoded"
    /\ edit' = [op |-> "in_save", data |-> edit.data, mime |-> edit.mime,
                url |-> edit.url, back |-> save_image_from_data_url(edit.url)]
    /\ UNCHANGED <<cacheFile, lastCall, procs, reads, lastWriter, dirs, sweep, clock, made>>

\* the decoded bytes are stored; the next response may come
CodecReturn ==
    /\ edit.op \in {"in_handler", "in_save"}
    /\ edit' = NoEdit
    /\ UNCHANGED <<cacheFile, lastCall, procs, reads, lastWriter, dirs, sweep, clock, made>>

NextCodec == CodecEncode \/ CodecHandlerDecode \/ CodecSaveDecode \/ CodecReturn

SpecCodec == InitEdit /\ [][NextCodec]_vars

(***************************************************************************)
(* The scheduler's cleanup job beside uploads and edit requests            *)
(* (SpecServing).  run_cleanup_if_needed is cut at its file-system calls:  *)
(* each directory walk, each time.time() and os.listdir, and each pass of  *)
(* the loop body over one file name is a step of its own; the clock may    *)
(* advance and a request handler may run between any two of them.          *)
(***************************************************************************)
\* seconds the clock advances in one behaviour
MaxTicks == 2

\* upload and edit requests in one behaviour
MaxRequests == 1

\* runs of the cleanup job in one behaviour: the scheduler starts it every
\* CLEANUP_INTERVAL_HOURS hours, one hour at the least
MaxSweeps == MaxTicks \div HourSeconds + 1

UploadNames == <<"upload_1", "upload_2", "upload_3">>

EditedNames == <<"edited_1", "edited_2", "edited_3">>

UploadedBytes == 200 * BytesPerMB

Named(entries, names) == {e \in entries : e.name \in names}

ServingDirs ==
    { [d \in TrackedDirs |-> IF d = uploads_path THEN DirOf(u) ELSE DirOf(e)] :
        u \in {Named(UploadEntries, {"u_old", "u_edge"})},
        e \in {Named(EditedEntries, {"e_old"}), Named(EditedEntries, {"e_new", "e_locked"})} }

\* lines 31-32 without the age: cutoff = now
cutoff_is_now(now, max_age_hours) == now

\* now = time.time(); cutoff = now - (max_age_hours * 60 * 60)
cutoff_of(now, max_age_hours) == now - max_age_hours * HourSeconds

\* time passes
Tick ==
    /\ clock < Clock + MaxTicks
    /\ clock' = clock + 1
    /\ UNCHANGED <<cacheFile, lastCall, procs, reads, lastWriter, dirs, sweep, edit, made>>

\* run_cleanup_if_needed lines 51-65: the configuration, makedirs, and the
\* size of static/uploads
SweepStart ==
    /\ sweep.op = "idle"
    /\ made.sweeps < MaxSweeps
    /\ made' = [made EXCEPT !.sweeps = @ + 1]
    /\ \E env \in StorageEnvs :
         /\ dirs' = [d \in TrackedDirs |-> makedirs(dirs[d])]
         /\ sweep' = [op |-> "measuring", env |-> env, started |-> clock,
                      uploads_size |-> get_directory_size(makedirs(dirs[uploads_path])),
                      path |-> "", cutoff |-> 0, todo |-> {}, count |-> 0, removed |-> {}]
    /\ UNCHANGED <<cacheFile, lastCall, procs, reads, lastWriter, edit, clock>>

\* lines 66-82: the size of static/edited_images and the comparison
SweepDecide ==
    /\ sweep.op = "measuring"
    /\ LET total_size == sweep.uploads_size + get_directory_size(dirs[edited_path])
       IN sweep' = IF exceeds(total_size, max_storage_mb_of(sweep.env))
                   THEN [sweep EXCEPT !.op = "call", !.path = uploads_path]
                   ELSE [sweep EXCEPT !.op = "done"]
    /\ UNCHANGED <<cacheFile, lastCall, procs, reads, lastWriter, dirs, edit, clock, made>>

\* clear_old_files lines 27-34: the cutoff of this pass and the listing
ClearBegin ==
    /\ sweep.op = "call"
    /\ sweep' = IF ~dirs[sweep.path].exists
                THEN [sweep EXCEPT !.op = "loop", !.todo = {}, !.count = 0]
                ELSE [sweep EXCEPT !.op = "loop", !.count = 0,
                                   !.cutoff = cutoff_of(clock, CleanupAgeHours),
                                   !.todo = {e.name : e \in dirs[sweep.path].entries}]
    /\ UNCHANGED <<cacheFile, lastCall, procs, reads, lastWriter, dirs, edit, clock, made>>

\* lines 35-42 for one file name of the listing
ClearStep ==
    /\ sweep.op = "loop"
    /\ \E n \in sweep.todo :
         LET here == dirs[sweep.path].entries
             r == IF \E e \in here : e.name = n
                  THEN remove_step(CHOOSE e \in here : e.name = n, sweep.cutoff,
                                   [entries |-> here, count |-> sweep.count, raised |-> FALSE])
                  ELSE [entries |-> here, count |-> sweep.count, raised |-> FALSE]
         IN /\ dirs' = [dirs EXCEPT ![sweep.path] = DirOf(r.entries)]
            /\ sweep' = [sweep EXCEPT !.todo = @ \ {n}, !.count = r.count,
                             !.removed = @ \cup (here \ r.entries)]
    /\ UNCHANGED <<cacheFile, lastCall, procs, reads, lastWriter, edit, clock, made>>

\* line 44 and lines 74-75: the pass returns, the next one is called
ClearEnd ==
    /\ sweep.op = "loop"
    /\ sweep.todo = {}
    /\ sweep' = IF sweep.path = uploads_path
                THEN [sweep EXCEPT !.op = "call", !.path = edited_path]
                ELSE [sweep EXCEPT !.op = "done"]
    /\ UNCHANGED <<cacheFile, lastCall, procs, reads, lastWriter, dirs, edit, clock, made>>

\* lines 77-82: the job is over; the scheduler starts the next one later
SweepEnd ==
    /\ sweep.op = "done"
    /\ sweep' = NoSweep
    /\ UNCHANGED <<cacheFile, lastCall, procs, reads, lastWriter, dirs, edit, clock, made>>

\* main.py upload_image: the file is created under a fresh uuid4 name
upload_image ==
    /\ made.uploads + made.edits < MaxRequests
    /\ made' = [made EXCEPT !.uploads = @ + 1]
    /\ dirs' = [dirs EXCEPT ![uploads_path] =
                   DirOf(makedirs(@).entries \cup
                         {Entry(UploadNames[made.uploads + 1], TRUE, clock, UploadedBytes, TRUE)})]
    /\ UNCHANGED <<cacheFile, lastCall, procs, reads, lastWriter, sweep, edit, clock>>

\* what the model answers to the requests of this specification
ServingModels ==
    { [raises |-> FALSE, parts |-> <<ImagePart("image/png", <<137, 80, 78>>)>>, text_ok |-> FALSE] }

\* main.py edit_image lines 226-239: a request for a file the client was
\* given the path of by an earlier upload
EditRequest ==
    /\ edit.op = "idle"
    /\ made.uploads + made.edits < MaxRequests
    /\ \E e \in dirs[uploads_path].entries, configured \in BOOLEAN, model \in ServingModels :
         /\ e.isfile
         /\ edit' = [op |-> "requested", name |-> e.name, configured |-> configured,
                     model |-> model]
    /\ made' = [made EXCEPT !.edits = @ + 1]
    /\ UNCHANGED <<cacheFile, lastCall, procs, reads, lastWriter, dirs, sweep, clock>>

\* main.py line 241: edit_image_with_gemini opens the file as it is now
EditRun ==
    /\ edit.op = "requested"
    /\ LET present == \E e \in dirs[uploads_path].entries : e.name = edit.name
           e == [configured |-> edit.configured,
                 source |-> <<"/app/static/uploads/", edit.name>>,
                 got |-> IF present
                         THEN [kind |-> "bytes", status |-> 0, content |-> PngBytes]
                         ELSE [kind |-> "FileNotFoundError", status |-> 0, content |-> <<>>],
                 model |-> edit.model]
       IN edit' = [op |-> "edited", name |-> edit.name, missing |-> ~present, env |-> e,
                   raised |-> edit_image_with_gemini(e).raised,
                   result |-> edit_image_with_gemini(e).result]
    /\ UNCHANGED <<cacheFile, lastCall, procs, reads, lastWriter, dirs, sweep, clock, made>>

\* main.py lines 243-262: an ok result is decoded and written to
\* static/edited_images under a fresh name
EditStore ==
    /\ edit.op = "edited"
    /\ edit' = [edit EXCEPT !.op = "done"]
    /\ dirs' = IF edit.result.ok
               THEN [dirs EXCEPT ![edited_path] =
                        DirOf(makedirs(@).entries \cup
                              {Entry(EditedNames[made.edits], TRUE, clock,
                                     Len(decode_in_handler(edit.result.edited_image_data).image_bytes),
                                     TRUE)})]
               ELSE dirs
    /\ UNCHANGED <<cacheFile, lastCall, procs, reads, lastWriter, sweep, clock, made>>

InitServing ==
    /\ cacheFile = Absent
    /\ lastCall = Idle
    /\ procs = <<>>
    /\ reads = {}
    /\ lastWriter = <<>>
    /\ dirs \in ServingDirs
    /\ sweep = NoSweep
    /\ edit = NoEdit
    /\ clock = Clock
    /\ made = NoneMade

NextServing ==
    \/ Tick
    \/ SweepStart \/ SweepDecide \/ ClearBegin \/ ClearStep \/ ClearEnd \/ SweepEnd
    \/ upload_image
    \/ EditRequest \/ EditRun \/ EditStore \/ EditReturn

SpecServing == InitServing /\ [][NextServing]_vars

(***************************************************************************)
(* Claims about the post resolver, one call at a time (Spec).              *)
(***************************************************************************)
Done == lastCall.op = "done"

\* the list a cache file holds: what a reader allowed to open it parses
HeldBy(file) ==
    IF file.exists /\ json_load(file.data).ok THEN json_load(file.data).posts ELSE <<>>

\* "absent or empty": no file, a file of no bytes, or the empty list
AbsentOrEmpty(file) == ~file.exists \/ file.data = <<>> \/ file.data = <<LBr, RBr>>

Ids(posts) == [i \in 1..Len(posts) |-> posts[i].id]

\* the claim's words: created within the last 24 hours and carrying a direct
\* .jpg/.jpeg/.png URL or a preview image URL
Qualifies(s) ==
    /\ s.created_utc >= Clock - DaySeconds
    /\ \/ (Len(s.url) > 0 /\ s.url[Len(s.url)] \in {".jpg", ".jpeg", ".png"})
       \/ (s.preview.has /\ s.preview.ok /\ s.preview.url # <<>>)

\* the qualifying submissions among the first `limit` candidates, in source order
QualifyingOf(listing, limit) ==
    SelectSeq(SubSeq(listing, 1, IF limit < Len(listing) THEN limit ELSE Len(listing)),
              Qualifies)

LiveFailed == lastCall.env.live \in {"no_creds", "ctor_raises", "query_raises", "iter_raises"}

\* C1: get_photoshop_request_posts never lets an exception escape: whatever the
\* live source does (no credentials, construction or query raising, iteration
\* raising, persisting raising) and whatever the cache file is (absent,
\* unreadable, malformed, empty, non-empty), the call returns, and on a
\* live-source failure it returns what the cache holds or else the mock dataset.
C1_NoExceptionEscapes ==
    Done =>
        /\ ~lastCall.raised
        /\ (LiveFailed \/ lastCall.env.save # "ok") =>
               lastCall.ret \in {HeldBy(cacheFile), get_mock_posts}

C3_CacheModeNeverQueries ==
    (Done /\ lastCall.cache) =>
        /\ ~lastCall.raised
        /\ ~lastCall.queried
        /\ ~lastCall.wrote
        /\ cacheFile = lastCall.pre
        /\ lastCall.ret = IF lastCall.env.readable /\ HeldBy(lastCall.pre) # <<>>
                          THEN HeldBy(lastCall.pre) ELSE get_mock_posts

\* C4: with cache=False, a failing live source and a non-empty cache, the call
\* returns the cached entries and leaves the cache file as it was.
C4_LiveFailureReturnsCache ==
    (Done /\ ~lastCall.cache /\ LiveFailed
          /\ lastCall.env.readable /\ HeldBy(lastCall.pre) # <<>>) =>
        /\ ~lastCall.raised
        /\ lastCall.ret = HeldBy(lastCall.pre)
        /\ cacheFile = lastCall.pre

\* C5: with the cache file absent or empty, and the live source not used
\* (cache=True), failing, or yielding no qualifying post, the call returns
\* exactly the mock dataset: mock_post_1, mock_post_2, mock_post_3.
C5_MockWhenNothingElse ==
    (Done /\ AbsentOrEmpty(lastCall.pre)
          /\ (lastCall.cache \/ LiveFailed
              \/ QualifyingOf(lastCall.env.listing, lastCall.limit) = <<>>)) =>
        /\ ~lastCall.raised
        /\ Ids(lastCall.ret) = <<"mock_post_1", "mock_post_2", "mock_post_3">>

\* C18: the resolver never persists an empty snapshot: after any sequence of
\* resolve calls, every write to the cache file stored a list with at least
\* one post, a non-empty cache is never replaced by an empty one, and every
\* resolve call returns a non-empty sequence.
C18_NeverEmptySnapshot ==
    Done =>
        /\ lastCall.wrote => HeldBy(cacheFile) # <<>>
        /\ HeldBy(lastCall.pre) # <<>> => HeldBy(cacheFile) # <<>>
        /\ ~lastCall.raised /\ lastCall.ret # <<>>

(***************************************************************************)
(* Claims about the reaper and the quota policy (SpecCleanup).             *)
(***************************************************************************)
Reaped == sweep.op = "reaper"

\* the entries of the swept directory before and after the call
Before == sweep.pre[sweep.path].entries

After == dirs[sweep.path].entries

\* the claim's words: direct regular files modified strictly before
\* now - maxAgeHours
Eligible(entries, now, hours) ==
    {e \in entries : e.isfile /\ e.mtime < now - hours * 3600}

\* C7 as stated: clear_old_files deletes exactly the direct regular files
\* modified strictly before now - maxAgeHours and returns how many it deleted.
C7_AsStated ==
    Reaped =>
        /\ Before \ After = Eligible(Before, sweep.now, sweep.hours)
        /\ After \subseteq Before
        /\ sweep.ret = Cardinality(Before \ After)

\* C7 amended: clear_old_files deletes exactly the direct regular files
\* modified strictly before now - maxAgeHours whose removal does not fail (a
\* file modified at the cutoff or later, and every subdirectory, is kept) and
\* returns how many it deleted; with every file younger it deletes nothing
\* and returns 0.
C7_DeletesExactlyOldFiles ==
    Reaped =>
        /\ Before \ After = {e \in Eligible(Before, sweep.now, sweep.hours) : e.removable}
        /\ After \subseteq Before
        /\ sweep.ret = Cardinality(Before \ After)
        /\ Eligible(Before, sweep.now, sweep.hours) = {} => (After = Before /\ sweep.ret = 0)
        /\ \A d \in TrackedDirs \ {sweep.path} : dirs[d] = sweep.pre[d]

\* C7 witness: a 24-hour sweep of a directory of mixed ages removed the one
\* old file, kept the file modified exactly at the cutoff and the younger
\* one, and returned 1.
C7_Witness ==
    /\ Reaped /\ sweep.path = uploads_path /\ sweep.hours = 24
    /\ {e.name : e \in Before} = {"u_old", "u_edge", "u_hour", "u_sub"}
    /\ {e.name : e \in After} = {"u_edge", "u_hour", "u_sub"}
    /\ sweep.ret = 1

\* C8: a deletion failure on one file does not abort the sweep: the call
\* returns without an exception, every eligible file whose removal does not
\* fail is deleted, the failing file stays, and the count returned is the
\* number of files actually removed.
C8_FailureDoesNotAbort ==
    (Reaped /\ \E e \in Eligible(Before, sweep.now, sweep.hours) : ~e.removable) =>
        /\ ~sweep.raised
        /\ \A e \in Eligible(Before, sweep.now, sweep.hours) : e.removable <=> e \notin After
        /\ sweep.ret = Cardinality({e \in Before : e \notin After})

\* C8 witness: the sweep met a file it could not remove and an old file it
\* removed.
C8_Witness ==
    /\ Reaped /\ ~sweep.raised
    /\ \E e \in Before : e.name = "u_locked" /\ e \in After
    /\ \E e \in Before : e.name = "u_old" /\ e \notin After
    /\ \E e \in Before : e.name = "u_hour" /\ e \notin After
    /\ sweep.ret = 2

\* combined size of the two tracked directories before the run, in bytes
RECURSIVE Bytes(_)
Bytes(entries) ==
    IF entries = {} THEN 0
    ELSE LET e == CHOOSE x \in entries : TRUE IN e.size + Bytes(entries \ {e})

UsageBefore == Bytes(sweep.pre[uploads_path].entries) + Bytes(sweep.pre[edited_path].entries)

Ceiling == (IF sweep.env.set THEN sweep.env.value ELSE 500) * 1048576

\* C9: one run of run_cleanup_if_needed deletes no file when the combined
\* size of the two directories is at or below the ceiling (500 MB unless
\* MAX_STORAGE_MB says otherwise); when the size strictly exceeds the ceiling
\* it invokes the reaper with the 24-hour threshold on each of the two
\* directories exactly once.
C9_QuotaTriggersReaper ==
    sweep.op = "policy" =>
        /\ UsageBefore <= Ceiling =>
               /\ sweep.calls = <<>>
               /\ \A d \in TrackedDirs : dirs[d].entries = sweep.pre[d].entries
        /\ UsageBefore > Ceiling =>
               /\ Len(sweep.calls) = 2
               /\ \A d \in TrackedDirs :
                    Cardinality({i \in 1..Len(sweep.calls) : sweep.calls[i].path = d}) = 1
               /\ \A i \in 1..Len(sweep.calls) : sweep.calls[i].hours = 24
               /\ \A d \in TrackedDirs :
                    dirs[d].entries =
                        {e \in sweep.pre[d].entries :
                            ~(e.isfile /\ e.removable /\ e.mtime < sweep.now - 24 * 3600)}

\* C9 witness, at the ceiling: exactly 500 MB in use, nothing deleted although
\* an old file is there.
C9_WitnessAtCeiling ==
    /\ sweep.op = "policy" /\ ~sweep.env.set
    /\ UsageBefore = 500 * 1048576
    /\ \E e \in dirs[uploads_path].entries : e.name = "u_old"

\* C9 witness, one byte above the ceiling: the reaper ran on both directories
\* and an old file is gone from each.
C9_Witness ==
    /\ sweep.op = "policy" /\ ~sweep.env.set
    /\ UsageBefore = 500 * 1048576 + 1
    /\ Len(sweep.calls) = 2
    /\ \E e \in sweep.pre[uploads_path].entries : e.name = "u_old" /\ e \notin dirs[uploads_path].entries
    /\ \E e \in sweep.pre[edited_path].entries : e.name = "e_old" /\ e \notin dirs[edited_path].entries

\* what the subdirectories of the two tracked directories held before the run
Subdirectories(ds) == {e \in ds[uploads_path].entries \cup ds[edited_path].entries : ~e.isfile}

NestedBytes == Bytes(Subdirectories(sweep.pre))

UsageAfter == get_directory_size(dirs[uploads_path]) + get_directory_size(dirs[edited_path])

\* C17: a cleanup sweep never deletes a subdirectory of a tracked directory
\* nor any file nested inside one, although get_directory_size counts the
\* nested files toward usage: after any sweep every subdirectory is there
\* with the bytes it held, so usage that nested files alone put above the
\* ceiling is still above it after the sweep.
C17_NestedFilesKept ==
    sweep.op \in {"policy", "reaper"} =>
        /\ \A d \in TrackedDirs :
             \A e \in sweep.pre[d].entries : ~e.isfile => e \in dirs[d].entries
        /\ UsageBefore >= NestedBytes
        /\ UsageAfter >= NestedBytes
        /\ NestedBytes > Ceiling => UsageAfter > Ceiling

\* C17 witness: the policy ran the reaper, which removed an old file, and the
\* subdirectory whose nested files alone exceed the ceiling is unchanged.
C17_Witness ==
    /\ sweep.op = "policy" /\ Len(sweep.calls) = 2
    /\ NestedBytes > Ceiling
    /\ \E e \in sweep.pre[edited_path].entries : e.name = "e_old" /\ e \notin dirs[edited_path].entries
    /\ \E e \in dirs[edited_path].entries : e.name = "e_sub" /\ e.size = 600 * BytesPerMB
    /\ UsageAfter > Ceiling

(***************************************************************************)
(* Claims about the edit orchestrator (SpecEdit).                          *)
(***************************************************************************)
Edited == edit.op = "done"

Contains(msg, piece) == \E i \in 1..Len(msg) : msg[i] = piece

\* the call could not obtain or decode the image, or the model call raised
ObtainFailed ==
    \/ edit.env.got.kind \in {"ConnectionError", "Timeout", "FileNotFoundError",
                              "PermissionError", "IsADirectoryError"}
    \/ edit.env.got.kind = "response" /\ edit.env.got.status >= 400
    \/ edit.env.got.content = <<>>
    \/ edit.env.got.content = HtmlBytes
    \/ edit.env.model.raises

Answers404 == edit.env.got.kind = "response" /\ edit.env.got.status = 404

MissingLocalFile == edit.env.got.kind = "FileNotFoundError"

\* C10 as stated: edit_image_with_gemini never propagates an exception; every
\* failure to obtain or decode the image returns ok=false with an error
\* string; a URL answering 404 gives an error containing "Failed to download"
\* and a missing local path gives an error mentioning "not found".
C10_AsStated ==
    Edited =>
        /\ ~edit.raised
        /\ ObtainFailed => (~edit.result.ok /\ edit.result.error # <<>>)
        /\ Answers404 => Contains(edit.result.error, "Failed to download")
        /\ MissingLocalFile => Contains(edit.result.error, "not found")

\* C10 amended: the same, the two messages being those of a call made with the
\* vision model configured; without GEMINI_API_KEY every call returns ok=false
\* with the error "AI model not configured." before it looks at its source.
C10_FailuresBecomeResults ==
    Edited =>
        /\ ~edit.raised
        /\ ObtainFailed =>
               (~edit.result.ok /\ edit.result.error # <<>> /\ edit.result.edited_image_data = <<>>)
        /\ (edit.env.configured /\ Answers404) =>
               Contains(edit.result.error, "Failed to download")
        /\ (edit.env.configured /\ MissingLocalFile) =>
               Contains(edit.result.error, "not found")
        /\ ~edit.env.configured => edit.result.error = <<"AI model not configured.">>

\* C10 witness: a configured call whose URL answered 404 returned ok=false
\* with the download error.
C10_Witness ==
    /\ Edited /\ edit.env.configured /\ Answers404
    /\ ~edit.raised /\ ~edit.result.ok
    /\ Contains(edit.result.error, "Failed to download")

\* C10 witness for the local path: a configured call on a missing file
\* returned ok=false mentioning "not found".
C10_WitnessLocal ==
    /\ Edited /\ edit.env.configured /\ MissingLocalFile /\ ~is_url(edit.env.source)
    /\ ~edit.raised /\ ~edit.result.ok
    /\ Contains(edit.result.error, "not found")

\* the call got as far as the model's answer: configured, image obtained and
\* decoded, generate_content returned
GotResponse == Edited /\ edit.env.configured /\ ~ObtainFailed

ImageParts(parts) == {i \in 1..Len(parts) : inline_set(parts[i])}

FirstImagePart(parts) ==
    parts[CHOOSE i \in ImageParts(parts) : \A j \in ImageParts(parts) : i <= j]

DataUri(part) ==
    <<"data:", part.inline_data.mime_type, ";base64,">> \o b64encode(part.inline_data.data)

\* C11: whenever the model's response contains inline image data, in whichever
\* part of the response it appears, edit_image_with_gemini returns ok=true
\* with edited_image_data equal to "data:<MIME type>;base64,<base64 of the
\* bytes>"; for inline PNG data the value starts with "data:image/png;base64,".
C11_InlineImageReturned ==
    (GotResponse /\ ImageParts(edit.env.model.parts) # {}) =>
        LET part == FirstImagePart(edit.env.model.parts)
        IN /\ ~edit.raised
           /\ edit.result.ok
           /\ edit.result.edited_image_data = DataUri(part)
           /\ part.inline_data.mime_type = "image/png" =>
                  SubSeq(edit.result.edited_image_data, 1, 3) = <<"data:", "image/png", ";base64,">>

NoImageMessage == "AI did not return an image."

ReasonLabel == "\nReason from AI: "

Texts(parts) == [i \in 1..Len(parts) |-> parts[i].text]

CarriesText(parts) == \E i \in 1..Len(parts) : parts[i].text # ""

\* C12: when the model's response contains no image part, the call returns
\* ok=false with an error message and no edited_image_data; the message has
\* the model's text appended when the response carries text that can be read,
\* and comes without it, still ok=false and without an exception, when reading
\* the text fails or there is none.
C12_RefusalReported ==
    (GotResponse /\ ImageParts(edit.env.model.parts) = {}) =>
        LET resp == edit.env.model
            err == edit.result.error
        IN /\ ~edit.raised
           /\ ~edit.result.ok
           /\ edit.result.edited_image_data = <<>>
           /\ err # <<>> /\ err[1] = NoImageMessage
           /\ (resp.text_ok /\ CarriesText(resp.parts)) =>
                  err = <<NoImageMessage, ReasonLabel>> \o Texts(resp.parts)
           /\ (~resp.text_ok \/ resp.parts = <<>>) => err = <<NoImageMessage>>
           /\ ~CarriesText(resp.parts) =>
                  \A i \in 2..Len(err) : err[i] \in {ReasonLabel, ""}

\* C12 witness: a refusal whose text was read is reported with the reason.
C12_Witness ==
    /\ GotResponse /\ ImageParts(edit.env.model.parts) = {}
    /\ edit.env.model.text_ok
    /\ ~edit.result.ok
    /\ Contains(edit.result.error, "I cannot edit this image.")

\* C12 witness: a refusal whose text could not be read is reported without it.
C12_WitnessUnreadable ==
    /\ GotResponse /\ ImageParts(edit.env.model.parts) = {}
    /\ CarriesText(edit.env.model.parts) /\ ~edit.env.model.text_ok
    /\ ~edit.raised /\ edit.result.error = <<NoImageMessage>>

(***************************************************************************)
(* Claim about the data URI of the edited image (SpecCodec).               *)
(***************************************************************************)
Decoded == edit.op \in {"in_handler", "in_save"}

\* C13: for every byte sequence the model returns as inline image data,
\* encoding it to a data URI and decoding that data URI again, as the
\* /api/edit handler and save_image_from_data_url do before storing the file,
\* yields content byte-identical to the model's bytes.
C13_RoundTrip ==
    Decoded =>
        /\ edit.back.image_bytes = edit.data
        /\ edit.op = "in_handler" => ~edit.back.raised
        /\ edit.op = "in_save" => (edit.back.raised <=> ~is_image(edit.data))

\* C13 witness: three bytes that use every bit position, and a sequence that
\* needs padding, came back from the handler's decoding.
C13_Witness ==
    /\ edit.op = "in_handler"
    /\ edit.data = <<137, 85, 170>>
    /\ edit.url = <<"data:", "image/png", ";base64,", 34, 21, 22, 42>>
    /\ edit.back.image_bytes = <<137, 85, 170>>

\* C13 witness: a padded group came back from save_image_from_data_url.
C13_WitnessPadded ==
    /\ edit.op = "in_save"
    /\ edit.data = <<255, 1>>
    /\ Len(edit.url) = 7 /\ edit.url[7] = B64Pad
    /\ edit.back.image_bytes = <<255, 1>>

(***************************************************************************)
(* Claim about the cleanup job beside uploads and edits (SpecServing).     *)
(***************************************************************************)
AgeSeconds == CleanupAgeHours * HourSeconds

\* the edit request has its result, and its source file was gone when
\* edit_image_with_gemini ran: the job removed it after the request came in
SourceRemoved == edit.op \in {"edited", "done"} /\ edit.missing

RemovedBySweep == IF sweep.op = "idle" THEN {} ELSE sweep.removed

\* the files written since the job started
WrittenSince(t) ==
    {e \in dirs[uploads_path].entries \cup dirs[edited_path].entries : e.mtime >= t}

\* first half of C15 as stated: the job removes only files whose
\* modification time was more than 24 hours before the job started.
C15_RemovedOnlyBeforeSweep ==
    \A e \in RemovedBySweep : e.mtime < sweep.started - AgeSeconds

\* second half of C15 as stated: an edit whose local source file was removed
\* by the job returns ok=false with a "not found" error instead of raising.
C15_RemovedFileReported ==
    SourceRemoved =>
        /\ ~edit.raised
        /\ ~edit.result.ok
        /\ Contains(edit.result.error, "not found")

\* C15 as stated: under any interleaving of a cleanup sweep with uploads and
\* edit requests, the sweep removes only files whose modification time was
\* more than 24 hours before the sweep started, a file written less than 24
\* hours earlier (also while the sweep runs) is never deleted, and an edit
\* whose local source file the sweep removed returns ok=false with a
\* "not found" error instead of raising.
C15_AsStated == C15_RemovedOnlyBeforeSweep /\ C15_RemovedFileReported

\* C15 amended: every file the sweep removes is a regular file whose
\* modification time was more than 24 hours before clear_old_files read the
\* clock for the pass over its directory, which is after the sweep started;
\* so no removed file is less than 24 hours old when it is removed and none
\* was written since the sweep started; an edit whose local source file the
\* sweep removed returns ok=false without raising, with a "not found" error
\* when the vision model is configured and with "AI model not configured."
\* when it is not.
C15_SweepSparesRecent ==
    /\ \A e \in RemovedBySweep :
           /\ e.isfile
           /\ e.mtime < sweep.cutoff
           /\ sweep.cutoff <= clock - AgeSeconds
           /\ e.mtime < sweep.started
           /\ e.name \notin {UploadNames[i] : i \in 1..Len(UploadNames)}
                            \cup {EditedNames[i] : i \in 1..Len(EditedNames)}
    /\ SourceRemoved =>
           /\ ~edit.raised
           /\ ~edit.result.ok
           /\ edit.result.edited_image_data = <<>>
           /\ edit.env.configured => Contains(edit.result.error, "not found")
           /\ ~edit.env.configured => edit.result.error = <<"AI model not configured.">>

\* C15 witness: the sweep removed the source of an edit request that had
\* come in before, and the edit, made with the model configured, returned
\* the "not found" error.
C15_Witness ==
    /\ SourceRemoved /\ edit.env.configured
    /\ \E e \in RemovedBySweep : e.name = edit.name
    /\ ~edit.raised /\ ~edit.result.ok
    /\ Contains(edit.result.error, "not found")

\* C15 witness: a file written while the sweep was running is still there
\* when the sweep, which removed an old file, is over.
C15_WitnessWritten ==
    /\ sweep.op = "done"
    /\ sweep.removed # {}
    /\ \E e \in WrittenSince(sweep.started) : e.mtime > sweep.started

(***************************************************************************)
(* Claim about the /api/edit handler (SpecEdit).                           *)
(***************************************************************************)
Answered == edit.op = "answered"

FieldMissing == falsy(edit.image_url) \/ falsy(edit.prompt)

\* C16: the /api/edit handler answers a request whose imageUrl or prompt is
\* missing or empty with HTTP status 400 and detail "imageUrl and prompt are
\* required", without calling the edit orchestrator and without writing any
\* file.
C16_MissingFieldsRejected ==
    (Answered /\ FieldMissing) =>
        /\ edit.answer.status = 400
        /\ edit.answer.detail = "imageUrl and prompt are required"
        /\ ~edit.answer.called
        /\ ~edit.answer.wrote
====
